---- MODULE Spec2Model ----
(***************************************************************************)
(* The Classifier of engine_components: a nested index                     *)
(*   list : systemName -> className -> { map, id, name }                   *)
(* with its builders (byModel, byPredefinedType, byEntity, byIfcRel,        *)
(* bySpatialStructure), the shared insertion primitive saveItem, the       *)
(* removal operations (remove, onFragmentsDisposed, dispose), the query    *)
(* find and the colour delegations setColor / resetColor.                  *)
(***************************************************************************)
EXTENDS Integers, Sequences, FiniteSets, Bags, TLC

VARIABLES
    list,    \* Classifier.list: the classification index
    tasks,   \* the bag of async builder calls suspended at an await
    last,    \* the call (or resumed step) that produced this state
    attached,   \* onFragmentsDisposed is registered with FragmentsManager
    listeners,  \* the handlers registered on Classifier.onDisposed
    loaded      \* the keys of FragmentsManager.list

vars == <<list, tasks, last, attached, listeners, loaded>>
events == <<attached, listeners>>

(***************************************************************************)
(* Values                                                                  *)
(***************************************************************************)
\* `null`, the parent id of a group without a containing entity
NULL == 0
\* the JS value `undefined` when it ends up as a class name (a Map key)
UNDEFINED == "<undefined>"
\* the empty FragmentIdMap `{}` and the empty DataMap
EmptyMap == [f \in {} |-> {}]
EmptyDataMap == [k \in {} |-> EmptyMap]

(***************************************************************************)
(* DataMap (../../core), used through get / set / delete, `for..in` and    *)
(* Object.keys / Object.values.                                            *)
(***************************************************************************)
DataMapHas(m, k) == k \in DOMAIN m
DataMapSet(m, k, v) == [x \in (DOMAIN m) \cup {k} |-> IF x = k THEN v ELSE m[x]]
DataMapDelete(m, k) == [x \in (DOMAIN m) \ {k} |-> m[x]]
\* what `for (const name in dataMap)` and Object.keys(dataMap) enumerate
DataMapKeys(m) == DOMAIN m
\* Object.values(dataMap).length
DataMapValuesLength(m) == Cardinality(DOMAIN m)

(***************************************************************************)
(* The loaded models (FRAGS.FragmentsGroup), as far as the Classifier      *)
(* reads them: data (expressID -> geometry keys, category code) and        *)
(* keyFragments (geometry key -> fragment id).                             *)
(***************************************************************************)
Frags == {"f1", "f2", "f3"}

\* category codes (abstract) and the static table IfcCategoryMap
IFCWALL == 1
IFCSLAB == 2
IFCSPACE == 3
IFCOTHER == 9
IfcCategoryMap(type) ==
    IF type = IFCWALL THEN "IFCWALL"
    ELSE IF type = IFCSLAB THEN "IFCSLAB"
    ELSE IF type = IFCSPACE THEN "IFCSPACE"
    ELSE UNDEFINED

\* relation type codes (abstract) and the codes isRel recognises
IFCRELCONTAINEDINSPATIALSTRUCTURE == 11
IFCRELAGGREGATES == 12
isRel(code) == code \in {IFCRELCONTAINEDINSPATIALSTRUCTURE, IFCRELAGGREGATES}

\* Model A: a storey (4, no geometry) containing a wall (1) and an element
\* whose only geometry key has no fragment (3); the wall is decomposed into
\* a part (2).  Entities 7 and 8 are the two relationship entities.
\* propertyIDs is getAllPropertiesIDs(), props the ids getProperties finds,
\* predefined the PredefinedType values of the entities that have one.
ModelA ==
    [uuid |-> "mA",
     data |-> (1 :> [keys |-> {1, 2}, cat |-> IFCWALL]
            @@ 2 :> [keys |-> {2}, cat |-> IFCSLAB]
            @@ 3 :> [keys |-> {3}, cat |-> IFCWALL]),
     keyFragments |-> (1 :> "f1" @@ 2 :> "f2"),
     names |-> (1 :> "W1" @@ 4 :> "L1"),
     props |-> {1, 2, 4, 7, 8},
     propertyIDs |-> <<1, 2, 4, 7, 8>>,
     predefined |-> (1 :> "STANDARD"),
     rels |-> << [type |-> IFCRELCONTAINEDINSPATIALSTRUCTURE,
                  relating |-> 4, related |-> {1, 3}],
                 [type |-> IFCRELAGGREGATES,
                  relating |-> 1, related |-> {2}] >>]

\* Model B: one slab (5) with a resolvable and an unresolvable key, one
\* entity without geometry keys (6), contained in an unnamed entity (9).
ModelB ==
    [uuid |-> "mB",
     data |-> (5 :> [keys |-> {1, 4}, cat |-> IFCSLAB]
            @@ 6 :> [keys |-> {}, cat |-> IFCOTHER]),
     keyFragments |-> (1 :> "f3"),
     names |-> (5 :> "S5"),
     props |-> {5, 6, 9, 10},
     propertyIDs |-> <<5, 6, 9, 10>>,
     predefined |-> [e \in {} |-> ""],
     rels |-> << [type |-> IFCRELCONTAINEDINSPATIALSTRUCTURE,
                  relating |-> 9, related |-> {6}] >>]

\* Model C: every geometry key has a fragment.  A storey (26, no geometry,
\* named as the storey of model A) contains a wall (21) that is decomposed
\* into a part (22); a space (23, with geometry, without properties) is part
\* of the storey and contains a piece of furniture (24).  The property table
\* lists an id (25) for which getProperties finds nothing.
ModelC ==
    [uuid |-> "mC",
     data |-> (21 :> [keys |-> {1}, cat |-> IFCWALL]
            @@ 22 :> [keys |-> {2}, cat |-> IFCSLAB]
            @@ 23 :> [keys |-> {3}, cat |-> IFCSPACE]
            @@ 24 :> [keys |-> {1}, cat |-> IFCOTHER]),
     keyFragments |-> (1 :> "f4" @@ 2 :> "f5" @@ 3 :> "f5"),
     names |-> (26 :> "L1" @@ 21 :> "W21"),
     props |-> {21, 26},
     propertyIDs |-> <<21, 25, 26>>,
     predefined |-> (21 :> "floor"),
     rels |-> << [type |-> IFCRELCONTAINEDINSPATIALSTRUCTURE,
                  relating |-> 26, related |-> {21}] >>]

Models == {ModelA, ModelB}
ModelIDs == {"mA", "mB"}
AllModels == Models \cup {ModelC}
ModelOf(uuid) == CHOOSE m \in AllModels : m.uuid = uuid

\* IfcRelationsIndexer.relationMaps: models A and C are indexed, model B not.
\* Per model: the entities in the map's iteration order, and per entity the
\* related ids of each inverse attribute it has.
relationMaps ==
    "mA" :> [order |-> <<1, 2, 4>>,
             of |-> (1 :> ("IsDecomposedBy" :> <<2>>)
                  @@ 2 :> ("Decomposes" :> <<1>>)
                  @@ 4 :> ("ContainsElements" :> <<1, 3>>))]
    @@
    "mC" :> [order |-> <<26, 21, 22, 23>>,
             of |-> (26 :> ("ContainsElements" :> <<21>> @@ "IsDecomposedBy" :> <<23>>)
                  @@ 21 :> ("IsDecomposedBy" :> <<22>>)
                  @@ 22 :> ("Decomposes" :> <<21>>)
                  @@ 23 :> ("Decomposes" :> <<26>> @@ "ContainsElements" :> <<24>>))]

\* const modelRelations = indexer.relationMaps[model.uuid]; if (!modelRelations) throw
hasModelRelationsAlways(model) == TRUE
hasModelRelations(model) == model.uuid \in DOMAIN relationMaps
modelRelations(model) ==
    IF model.uuid \in DOMAIN relationMaps THEN relationMaps[model.uuid].order
    ELSE <<>>

\* IfcRelationsIndexer.getEntityRelations: <<>> stands for null
hasEntityRelations(model, expressID, relationName) ==
    /\ model.uuid \in DOMAIN relationMaps
    /\ expressID \in DOMAIN relationMaps[model.uuid].of
    /\ relationName \in DOMAIN relationMaps[model.uuid].of[expressID]
getEntityRelations(model, expressID, relationName) ==
    IF hasEntityRelations(model, expressID, relationName)
    THEN relationMaps[model.uuid].of[expressID][relationName]
    ELSE <<>>

\* model.getProperties(id): found or null; and the entity's Name?.value
hasProperties(model, id) == id \in model.props
NameValue(model, id) ==
    IF id \in DOMAIN model.names THEN model.names[id] ELSE UNDEFINED

\* the fragment ids an entity's geometry keys resolve to (keyFragments.get)
FragmentsOf(group, expressID) ==
    IF expressID \notin DOMAIN group.data THEN {}
    ELSE {group.keyFragments[k] :
            k \in group.data[expressID].keys \cap DOMAIN group.keyFragments}

\* the (class, fragment, id) insertions of saving ids under class className
Insertions(group, className, ids) ==
    UNION {{[cls |-> className, frag |-> f, id |-> e] : f \in FragmentsOf(group, e)} :
              e \in ids}

(***************************************************************************)
(* FragmentIdMap operations (plain object: fragment id -> Set of ids)      *)
(***************************************************************************)
\* if (!map[f]) map[f] = new Set(); map[f].add(id)   for every f in frs
MapAdd(map, frs, id) ==
    [f \in (DOMAIN map) \cup frs |->
        (IF f \in DOMAIN map THEN map[f] ELSE {})
        \cup (IF f \in frs THEN {id} ELSE {})]

\* delete map[f]   for every f in frs
MapDelete(map, frs) == [f \in (DOMAIN map) \ frs |-> map[f]]

(***************************************************************************)
(* saveItem                                                                *)
(***************************************************************************)
\* saveItem without the existence check before the creation of the class
saveItemCreating(l, group, systemName, className, expressID, parentID) ==
    LET l1 == IF ~DataMapHas(l, systemName)
              THEN DataMapSet(l, systemName, EmptyDataMap)
              ELSE l
        frs == FragmentsOf(group, expressID)
    IN  IF frs = {} THEN l1
        ELSE DataMapSet(l1, systemName,
                 DataMapSet(l1[systemName], className,
                     [map |-> MapAdd(EmptyMap, frs, expressID),
                      id |-> parentID, name |-> className]))

saveItem(l, group, systemName, className, expressID, parentID) ==
    LET l1 == IF ~DataMapHas(l, systemName)
              THEN DataMapSet(l, systemName, EmptyDataMap)
              ELSE l
        frs == FragmentsOf(group, expressID)
    IN  IF expressID \notin DOMAIN group.data THEN l1
        ELSE IF frs = {} THEN l1
        ELSE
          LET system == l1[systemName]
              cur == IF DataMapHas(system, className)
                     THEN system[className]
                     ELSE [map |-> EmptyMap, id |-> parentID, name |-> className]
              new == [cur EXCEPT !.map = MapAdd(cur.map, frs, expressID)]
          IN  DataMapSet(l1, systemName, DataMapSet(system, className, new))

(***************************************************************************)
(* byModel                                                                 *)
(***************************************************************************)
RECURSIVE byModelLoopFirstKey(_, _, _)
byModelLoopFirstKey(cur, group, ids) ==
    IF ids = {} THEN cur
    ELSE LET expressID == CHOOSE e \in ids : TRUE
             all == FragmentsOf(group, expressID)
             frs == IF all = {} THEN {} ELSE {CHOOSE f \in all : TRUE}
         IN  byModelLoopFirstKey(
                 [cur EXCEPT !.map = MapAdd(cur.map, frs, expressID)],
                 group, ids \ {expressID})

RECURSIVE byModelLoop(_, _, _)
byModelLoop(cur, group, ids) ==
    IF ids = {} THEN cur
    ELSE LET expressID == CHOOSE e \in ids : TRUE
             frs == FragmentsOf(group, expressID)
         IN  byModelLoop([cur EXCEPT !.map = MapAdd(cur.map, frs, expressID)],
                         group, ids \ {expressID})

byModel(l, modelID, group) ==
    LET l1 == IF ~DataMapHas(l, "models")
              THEN DataMapSet(l, "models", EmptyDataMap)
              ELSE l
        modelsClassification == l1["models"]
        currentModel ==
            IF DataMapHas(modelsClassification, modelID)
            THEN modelsClassification[modelID]
            ELSE [map |-> EmptyMap, id |-> NULL, name |-> modelID]
    IN  DataMapSet(l1, "models",
            DataMapSet(modelsClassification, modelID,
                byModelLoop(currentModel, group, DOMAIN group.data)))

(***************************************************************************)
(* byEntity                                                                *)
(***************************************************************************)
RECURSIVE byEntityLoop(_, _, _)
byEntityLoop(l, group, ids) ==
    IF ids = {} THEN l
    ELSE LET expressID == CHOOSE e \in ids : TRUE
             type == group.data[expressID].cat
             entity == IfcCategoryMap(type)
         IN  byEntityLoop(saveItem(l, group, "entities", entity, expressID, NULL),
                          group, ids \ {expressID})

byEntity(l, group) ==
    LET l1 == IF ~DataMapHas(l, "entities")
              THEN DataMapSet(l, "entities", EmptyDataMap)
              ELSE l
    IN  byEntityLoop(l1, group, DOMAIN group.data)

(***************************************************************************)
(* remove                                                                  *)
(***************************************************************************)
removePruning(l, guid) ==
    LET purged(systemName) ==
            [groupName \in DataMapKeys(l[systemName]) |->
                [l[systemName][groupName] EXCEPT !.map = MapDelete(@, {guid})]]
    IN  [systemName \in DataMapKeys(l) |->
            [groupName \in {g \in DataMapKeys(l[systemName]) :
                               purged(systemName)[g].map # EmptyMap} |->
                purged(systemName)[groupName]]]

remove(l, guid) ==
    [systemName \in DataMapKeys(l) |->
        [groupName \in DataMapKeys(l[systemName]) |->
            [l[systemName][groupName] EXCEPT !.map = MapDelete(@, {guid})]]]

(***************************************************************************)
(* onFragmentsDisposed                                                     *)
(***************************************************************************)
\* Object.values(group).length for a group record { map, id, name }
GroupValuesLength(group) == Cardinality(DOMAIN group)

\* the else branch: every class of the system loses the fragment ids
disposedPurge(system, fragmentIDs) ==
    LET purged == [groupName \in DataMapKeys(system) |->
                     [system[groupName] EXCEPT !.map = MapDelete(@, fragmentIDs)]]
        kept == {groupName \in DataMapKeys(system) :
                     GroupValuesLength(purged[groupName]) # 0}
    IN  [groupName \in kept |-> purged[groupName]]

onFragmentsDisposed(l, groupID, fragmentIDs) ==
    LET groupMatches(systemName) == groupID \in DataMapKeys(l[systemName])
        deleted == {systemName \in DataMapKeys(l) :
                       /\ groupMatches(systemName)
                       /\ DataMapValuesLength(DataMapDelete(l[systemName], groupID)) = 0}
    IN  [systemName \in DataMapKeys(l) \ deleted |->
            IF groupMatches(systemName)
            THEN DataMapDelete(l[systemName], groupID)
            ELSE disposedPurge(l[systemName], fragmentIDs)]

(***************************************************************************)
(* find                                                                    *)
(***************************************************************************)
\* fragment.ids of every fragment FragmentsManager.list may hold
fragmentsList ==
    "f1" :> {1} @@ "f2" :> {1, 2} @@ "f3" :> {5}
    @@ "f4" :> {21, 24} @@ "f5" :> {22, 23}

\* a filter object: given = FALSE is find() without an argument
NoFilter == [given |-> FALSE, keys |-> [k \in {} |-> <<>>]]
Filter(keys) == [given |-> TRUE, keys |-> keys]

\* the match-count map `models` (fragment guid -> Map of id -> count), built
\* as the loops of find build it.  NoCount is what Map.get returns for an id
\* without an entry (undefined)
NoCount == 0 - 1
NoModels == [guid \in {} |-> [id \in {} |-> 0]]
matchCountOf(counts, id) == IF id \in DOMAIN counts THEN counts[id] ELSE NoCount

\* an entry set without a count
findCountIdUnset(counts, id) ==
    [x \in (DOMAIN counts) \cup {id} |->
        IF x # id THEN counts[x]
        ELSE IF matchCountOf(counts, id) = NoCount THEN NoCount
        ELSE matchCountOf(counts, id) + 1]

\* matchCount === undefined ? set(id, 1) : set(id, matchCount + 1)
findCountId(counts, id) ==
    LET matchCount == matchCountOf(counts, id)
    IN  [x \in (DOMAIN counts) \cup {id} |->
            IF x # id THEN counts[x]
            ELSE IF matchCount = NoCount THEN 1 ELSE matchCount + 1]

\* for (const id of groupData.map[guid])
RECURSIVE findCountIds(_, _)
findCountIds(counts, ids) ==
    IF ids = {} THEN counts
    ELSE LET id == CHOOSE x \in ids : TRUE
         IN  findCountIds(findCountId(counts, id), ids \ {id})

\* for (const guid in groupData.map)
RECURSIVE findCountGuids(_, _, _)
findCountGuids(models, map, guids) ==
    IF guids = {} THEN models
    ELSE LET guid == CHOOSE g \in guids : TRUE
             counts == IF guid \in DOMAIN models THEN models[guid]
                       ELSE [id \in {} |-> 0]
         IN  findCountGuids(
                 [g \in (DOMAIN models) \cup {guid} |->
                     IF g = guid THEN findCountIds(counts, map[guid]) ELSE models[g]],
                 map, guids \ {guid})

\* for (const value of values)
RECURSIVE findCountValues(_, _, _, _)
findCountValues(models, l, name, values) ==
    IF values = <<>> THEN models
    ELSE LET value == Head(values)
             counted == IF DataMapHas(l[name], value)
                        THEN findCountGuids(models, l[name][value].map,
                                            DOMAIN l[name][value].map)
                        ELSE models
         IN  findCountValues(counted, l, name, Tail(values))

\* for (const name in filter), skipping the names the index does not have
RECURSIVE findCountNames(_, _, _, _)
findCountNames(models, l, keys, names) ==
    IF names = {} THEN models
    ELSE LET name == CHOOSE n \in names : TRUE
             counted == IF ~DataMapHas(l, name) THEN models
                        ELSE findCountValues(models, l, name, keys[name])
         IN  findCountNames(counted, l, keys, names \ {name})

findModels(l, filter) == findCountNames(NoModels, l, filter.keys, DOMAIN filter.keys)

\* numberOfMatches === undefined for some entry of the match-count map
findMalformed(models) ==
    \E guid \in DOMAIN models :
        \E id \in DOMAIN models[guid] : models[guid][id] = NoCount

\* every id stored anywhere under fragment guid
idsUnder(l, guid) ==
    UNION {UNION {IF guid \in DOMAIN l[s][c].map THEN l[s][c].map[guid] ELSE {} :
                    c \in DOMAIN l[s]} : s \in DOMAIN l}
guidsIn(l) == UNION {UNION {DOMAIN l[s][c].map : c \in DOMAIN l[s]} : s \in DOMAIN l}

\* an export of the index instead of FragmentsManager.list
findStored(l, filter) ==
    [err |-> "", models |-> NoModels,
     result |-> [guid \in guidsIn(l) |-> idsUnder(l, guid)]]

\* the ids of each fragment with as many matches as the filter has keys
findResult(models, filterCount) ==
    LET hit(guid) == {id \in DOMAIN models[guid] : models[guid][id] = filterCount}
    IN  [guid \in {g \in DOMAIN models : hit(g) # {}} |-> hit(guid)]

\* the error find throws or the FragmentIdMap it returns, and the
\* match-count map it built on the way
find(l, filter) ==
    IF ~filter.given
    THEN [err |-> "", models |-> NoModels,
          result |-> [id \in loaded |-> fragmentsList[id]]]
    ELSE LET filterCount == Cardinality(DOMAIN filter.keys)
             models == findModels(l, filter)
         IN  IF findMalformed(models)
             THEN [err |-> "Malformed fragments map!", models |-> models,
                   result |-> EmptyMap]
             ELSE [err |-> "", models |-> models,
                   result |-> findResult(models, filterCount)]

(***************************************************************************)
(* byIfcRel: the relation-map walk (IfcPropertiesUtils.getRelationMap)     *)
(* calls back once per relationship entity of the given type, each time    *)
(* after a property lookup; the callback resolves the relating entity's    *)
(* name (a lookup) and then saves every related entity.                    *)
(***************************************************************************)
RelIndexes(group, ifcRel) ==
    {i \in 1..Len(group.rels) : group.rels[i].type = ifcRel}

RECURSIVE IndexSeq(_)
IndexSeq(S) ==
    IF S = {} THEN <<>>
    ELSE LET i == CHOOSE x \in S : \A y \in S : x <= y
         IN  <<i>> \o IndexSeq(S \ {i})

\* if (!IfcPropertiesUtils.isRel(ifcRel)) return;
byIfcRelAlways(ifcRel) == TRUE
byIfcRelRuns(ifcRel) == isRel(ifcRel)

\* relatingName ?? "NO REL NAME"
RelatingName(group, relatingID) ==
    IF relatingID \in DOMAIN group.names THEN group.names[relatingID]
    ELSE "NO REL NAME"

RECURSIVE saveItems(_, _, _, _, _, _)
saveItems(l, group, systemName, className, ids, parentID) ==
    IF ids = {} THEN l
    ELSE LET expressID == CHOOSE e \in ids : TRUE
         IN  saveItems(saveItem(l, group, systemName, className, expressID, parentID),
                       group, systemName, className, ids \ {expressID}, parentID)

byIfcRelCallback(l, group, systemName, rel) ==
    saveItems(l, group, systemName, RelatingName(group, rel.relating),
              rel.related, NULL)

(***************************************************************************)
(* bySpatialStructure                                                      *)
(***************************************************************************)
Digit(d) == SubSeq("0123456789", d + 1, d + 1)
RECURSIVE toString(_)
toString(n) == IF n < 10 THEN Digit(n) ELSE toString(n \div 10) \o Digit(n % 10)

SeqToSet(q) == {q[i] : i \in 1..Len(q)}

\* the work of one loop pass that follows one (possible) property lookup
DecomposesItem(expressID, id) == [t |-> "Decomposes", x |-> expressID, y |-> id]
ContainsItem(expressID) == [t |-> "ContainsElements", x |-> expressID, y |-> NULL]

\* const noProps = config.useProperties === undefined;
\* const useProperties = noProps || config.useProperties;
usePropertiesNoDefault(useProps) == useProps = "true"
usePropertiesOf(useProps) == useProps = "undefined" \/ useProps = "true"

NoIsolate == [set |-> FALSE, cats |-> {}]
IsolatedNever(model, isolate, expressID) == FALSE
Isolated(model, isolate, expressID) ==
    /\ isolate.set
    /\ \/ expressID \notin DOMAIN model.data
       \/ model.data[expressID].cat \notin isolate.cats

RECURSIVE spatialItems(_, _, _)
spatialItems(model, isolate, order) ==
    IF order = <<>> THEN <<>>
    ELSE LET expressID == Head(order)
             spatialRels == getEntityRelations(model, expressID, "Decomposes")
             mine == IF Isolated(model, isolate, expressID) THEN <<>>
                     ELSE [i \in 1..Len(spatialRels) |->
                              DecomposesItem(expressID, spatialRels[i])]
                          \o (IF hasEntityRelations(model, expressID, "ContainsElements")
                              THEN <<ContainsItem(expressID)>> ELSE <<>>)
         IN  mine \o spatialItems(model, isolate, Tail(order))

\* the ids handed to saveItem by one pass
RECURSIVE containedIDsDirect(_, _)
containedIDsDirect(model, rels) ==
    IF rels = <<>> THEN {}
    ELSE {Head(rels)} \cup containedIDsDirect(model, Tail(rels))

RECURSIVE containedIDs(_, _)
containedIDs(model, rels) ==
    IF rels = <<>> THEN {}
    ELSE {Head(rels)}
         \cup SeqToSet(getEntityRelations(model, Head(rels), "IsDecomposedBy"))
         \cup containedIDs(model, Tail(rels))

\* the entity a pass names its class after, and the name
spatialItemOwner(item) == IF item.t = "Decomposes" THEN item.y ELSE item.x
spatialItemName(model, item, useProperties) ==
    IF useProperties THEN NameValue(model, spatialItemOwner(item))
    ELSE toString(spatialItemOwner(item))

spatialItemIDs(model, item, useProperties) ==
    LET owner == spatialItemOwner(item) IN
    IF useProperties /\ ~hasProperties(model, owner) THEN {}
    ELSE IF item.t = "Decomposes" THEN {item.x}
    ELSE containedIDs(model, getEntityRelations(model, item.x, "ContainsElements"))

spatialItem(l, model, item, useProperties) ==
    saveItems(l, model, "spatialStructures",
              spatialItemName(model, item, useProperties),
              spatialItemIDs(model, item, useProperties), spatialItemOwner(item))

spatialItemInsertions(model, item, useProperties) ==
    Insertions(model, spatialItemName(model, item, useProperties),
               spatialItemIDs(model, item, useProperties))

RECURSIVE spatialAll(_, _, _, _)
spatialAll(l, model, items, useProperties) ==
    IF items = <<>> THEN l
    ELSE spatialAll(spatialItem(l, model, Head(items), useProperties),
                    model, Tail(items), useProperties)

RECURSIVE spatialAllIDs(_, _, _)
spatialAllIDs(model, items, useProperties) ==
    IF items = <<>> THEN {}
    ELSE spatialItemIDs(model, Head(items), useProperties)
         \cup spatialAllIDs(model, Tail(items), useProperties)

RECURSIVE spatialAllInsertions(_, _, _)
spatialAllInsertions(model, items, useProperties) ==
    IF items = <<>> THEN {}
    ELSE spatialItemInsertions(model, Head(items), useProperties)
         \cup spatialAllInsertions(model, Tail(items), useProperties)

(***************************************************************************)
(* byPredefinedType                                                        *)
(***************************************************************************)
Lower == "abcdefghijklmnopqrstuvwxyz"
Upper == "ABCDEFGHIJKLMNOPQRSTUVWXYZ"
toUpperCaseChar(c) ==
    IF \E i \in 1..Len(Lower) : SubSeq(Lower, i, i) = c
    THEN LET i == CHOOSE j \in 1..Len(Lower) : SubSeq(Lower, j, j) = c
         IN  SubSeq(Upper, i, i)
    ELSE c
RECURSIVE toUpperCase(_)
toUpperCase(s) ==
    IF s = "" THEN ""
    ELSE toUpperCaseChar(SubSeq(s, 1, 1)) \o toUpperCase(SubSeq(s, 2, Len(s)))

\* String(entity.PredefinedType?.value)
StringOfPredefinedType(group, id) ==
    IF id \in DOMAIN group.predefined THEN group.predefined[id] ELSE "undefined"

predefinedTypeOfAsWritten(group, id) == StringOfPredefinedType(group, id)
predefinedTypeOf(group, id) == toUpperCase(StringOfPredefinedType(group, id))

\* the geometry keys of group.data in the order the two nested loops meet them
RECURSIVE dataKeys(_, _)
dataKeys(group, ids) ==
    IF ids = <<>> THEN <<>>
    ELSE IndexSeq(group.data[Head(ids)].keys) \o dataKeys(group, Tail(ids))

\* the loops over group.data: the fragments reached before the first key
\* without an entry in keyFragments, and whether such a key stops the loops
byPredefinedTypeLoopSkipping(group) ==
    LET keys == dataKeys(group, IndexSeq(DOMAIN group.data))
    IN  [frags |-> {group.keyFragments[keys[i]] :
                       i \in {j \in 1..Len(keys) : keys[j] \in DOMAIN group.keyFragments}},
         err |-> FALSE]

byPredefinedTypeLoop(group) ==
    LET keys == dataKeys(group, IndexSeq(DOMAIN group.data))
        missing == {i \in 1..Len(keys) : keys[i] \notin DOMAIN group.keyFragments}
        n == IF missing = {} THEN Len(keys) + 1
             ELSE CHOOSE i \in missing : \A j \in missing : i <= j
    IN  [frags |-> {group.keyFragments[keys[i]] : i \in 1..(n - 1)},
         err |-> missing # {}]

\* the pass for one entity whose properties were found, on the system
\* DataMap the call captured before its first lookup
byPredefinedTypeEntity(currentTypes, group, id) ==
    LET predefinedType == predefinedTypeOf(group, id)
        currentType ==
            IF DataMapHas(currentTypes, predefinedType)
            THEN currentTypes[predefinedType]
            ELSE [map |-> EmptyMap, id |-> NULL, name |-> predefinedType]
    IN  DataMapSet(currentTypes, predefinedType,
            [currentType EXCEPT
                !.map = MapAdd(@, byPredefinedTypeLoop(group).frags, id)])

(***************************************************************************)
(* dispose: DataMap.dispose, Event.remove, Event.trigger, Event.reset      *)
(***************************************************************************)
NoNotifications == [h \in {} |-> [times |-> 0, attached |-> FALSE]]

listDispose(st) == [st EXCEPT !.list = EmptyDataMap]
removeHandler(st) == [st EXCEPT !.attached = FALSE]
trigger(st) ==
    [st EXCEPT !.notified =
        [h \in (DOMAIN st.notified) \cup st.listeners |->
            IF h \in st.listeners
            THEN [times |-> (IF h \in DOMAIN st.notified
                             THEN st.notified[h].times ELSE 0) + 1,
                  attached |-> st.attached]
            ELSE st.notified[h]]]
reset(st) == [st EXCEPT !.listeners = {}]

disposeTriggerFirst(st) == reset(removeHandler(trigger(listDispose(st))))
dispose(st) == reset(trigger(removeHandler(listDispose(st))))

(***************************************************************************)
(* setColor / resetColor: the calls delegated to the fragments found       *)
(***************************************************************************)
RECURSIVE delegationsUnchecked(_, _)
delegationsUnchecked(items, keys) ==
    IF keys = {} THEN <<>>
    ELSE LET fragID == CHOOSE k \in keys : TRUE
         IN  <<[frag |-> fragID, ids |-> items[fragID]]>>
             \o delegationsUnchecked(items, keys \ {fragID})

RECURSIVE delegations(_, _)
delegations(items, keys) ==
    IF keys = {} THEN <<>>
    ELSE LET fragID == CHOOSE k \in keys : TRUE
             found == fragID \in loaded
         IN  (IF ~found THEN <<>>
              ELSE <<[frag |-> fragID, ids |-> items[fragID]]>>)
             \o delegations(items, keys \ {fragID})

setColor(items, color, override) ==
    LET calls == delegations(items, DOMAIN items)
    IN  [i \in 1..Len(calls) |->
            [method |-> "setColor", frag |-> calls[i].frag, ids |-> calls[i].ids,
             color |-> color, override |-> override]]

resetColor(items) ==
    LET calls == delegations(items, DOMAIN items)
    IN  [i \in 1..Len(calls) |->
            [method |-> "resetColor", frag |-> calls[i].frag, ids |-> calls[i].ids,
             color |-> "", override |-> FALSE]]

(***************************************************************************)
(* The calls                                                               *)
(***************************************************************************)
MaxTasks == 2
MaxFilterKeys == 2
MaxFilterLen == 2

\* the filters tried: up to MaxFilterKeys system names (one of them absent
\* from every index), each with 1..MaxFilterLen class names
FilterClasses ==
    "models" :> {"mA", "mB"} @@ "entities" :> {"IFCWALL"} @@ "nosuch" :> {"mA"}
FilterLists(name) ==
    UNION {[1..n -> FilterClasses[name]] : n \in 1..MaxFilterLen}
FilterKeySets ==
    {K \in SUBSET DOMAIN FilterClasses : Cardinality(K) <= MaxFilterKeys}
FilterObjects(K) == {keys \in [K -> UNION {FilterLists(name) : name \in K}] :
                        \A name \in K : keys[name] \in FilterLists(name)}
Filters == {NoFilter} \cup UNION {{Filter(keys) : keys \in FilterObjects(K)} : K \in FilterKeySets}

SystemNames == {"rels"}
RelCodes == {IFCRELCONTAINEDINSPATIALSTRUCTURE, IFCRELAGGREGATES, IFCWALL}
UsePropertiesOptions == {"undefined", "true", "false"}
IsolateOptions == {NoIsolate, [set |-> TRUE, cats |-> {IFCSLAB}],
                   [set |-> TRUE, cats |-> {IFCSPACE}]}
\* the disposal notifications met by the builders at work on model C: the
\* model's own uuid or one that is also the name of a class, with none or
\* all of the model's fragments
GroupIDsC == {"mC", "FLOOR", "L1"}
FragmentSetsC == {{}, {"f4", "f5"}}
Handlers == {"h1", "h2"}
Colors == {"red"}
\* the FragmentIdMaps handed to setColor / resetColor: a result of find, or
\* ids picked by the caller, for loaded and for unloaded fragments
ItemsOptions ==
    {[id \in K |-> fragmentsList[id]] : K \in SUBSET {"f1", "f3", "f4"}}
    \cup {"f2" :> {1} @@ "f5" :> {}}

NoCall ==
    [op |-> "init", model |-> "", sys |-> "", cls |-> "", guid |-> "",
     frags |-> {}, code |-> 0, ids |-> {}, changed |-> FALSE, wasEmpty |-> TRUE,
     lookup |-> FALSE, err |-> "", filter |-> NoFilter, result |-> EmptyMap,
     opt |-> "", useProperties |-> FALSE, isolate |-> NoIsolate,
     finished |-> FALSE, hit |-> FALSE, since |-> {},
     handlers |-> {}, notified |-> NoNotifications,
     items |-> EmptyMap, calls |-> <<>>, models |-> NoModels]

Done(op, l2) ==
    [NoCall EXCEPT !.op = op, !.changed = (l2 # list),
                   !.wasEmpty = (list = EmptyDataMap)]

\* a call suspended at an await.  detached: the system DataMap the call
\* holds is no longer the one in the index; hit: a disposal notification was
\* delivered while the call was in flight; since: what the call has
\* inserted since then (or since it started)
NewTask(kind, model, systemName, useProperties, isolate, todo) ==
    [kind |-> kind, model |-> model, sys |-> systemName,
     useProperties |-> useProperties, isolate |-> isolate,
     detached |-> FALSE, hit |-> FALSE, since |-> {}, todo |-> todo]

Suspend(task) == tasks (+) SetToBag({task})
Return(task) == tasks (-) SetToBag({task})
Continue(task, new) == Return(task) (+) SetToBag({new})

\* the suspended calls after the index became l2 without their doing:
\* a byPredefinedType call whose captured system is gone from l2 is detached
RECURSIVE Interrupted(_, _, _, _)
Interrupted(B, S, l2, notification) ==
    IF S = {} THEN EmptyBag
    ELSE LET task == CHOOSE t \in S : TRUE
             gone == task.kind = "byPredefinedType" /\ ~DataMapHas(l2, task.sys)
             new == [task EXCEPT !.detached = @ \/ gone,
                                 !.hit = @ \/ notification,
                                 !.since = IF notification THEN {} ELSE @]
         IN  (new :> B[task]) (+) Interrupted(B, S \ {task}, l2, notification)

ByModel ==
    \E modelID \in ModelIDs, group \in Models :
        LET l2 == byModel(list, modelID, group) IN
        /\ list' = l2
        /\ last' = [Done("byModel", l2) EXCEPT !.model = group.uuid, !.cls = modelID]
        /\ UNCHANGED <<tasks, events, loaded>>

ByEntityOf(groups) ==
    \E group \in groups :
        LET l2 == byEntity(list, group) IN
        /\ list' = l2
        /\ last' = [Done("byEntity", l2) EXCEPT !.model = group.uuid,
                                               !.ids = DOMAIN group.data]
        /\ UNCHANGED <<tasks, events, loaded>>

ByEntity == ByEntityOf(Models)

Remove ==
    \E guid \in Frags :
        LET l2 == remove(list, guid) IN
        /\ list' = l2
        /\ last' = [Done("remove", l2) EXCEPT !.guid = guid]
        /\ UNCHANGED <<tasks, events, loaded>>

\* FragmentsManager.onFragmentsDisposed.trigger(data): the handler runs if
\* it is (still) registered
FragmentsDisposedOf(groupIDs, fragmentSets) ==
    \E groupID \in groupIDs, fragmentIDs \in fragmentSets :
        LET l2 == IF attached THEN onFragmentsDisposed(list, groupID, fragmentIDs)
                  ELSE list
        IN
        /\ list' = l2
        /\ tasks' = Interrupted(tasks, BagToSet(tasks), l2, attached)
        /\ last' = [Done("onFragmentsDisposed", l2)
                        EXCEPT !.cls = groupID, !.frags = fragmentIDs]
        /\ UNCHANGED <<events, loaded>>

FragmentsDisposed == FragmentsDisposedOf(ModelIDs, SUBSET Frags)

\* Classifier.onDisposed.add(handler)
AddListener ==
    \E handler \in Handlers \ listeners :
        /\ listeners' = listeners \cup {handler}
        /\ last' = [Done("onDisposed.add", list) EXCEPT !.handlers = {handler}]
        /\ UNCHANGED <<list, tasks, attached, loaded>>

Dispose ==
    LET st == dispose([list |-> list, attached |-> attached,
                       listeners |-> listeners, notified |-> NoNotifications])
    IN
    /\ list' = st.list
    /\ attached' = st.attached
    /\ listeners' = st.listeners
    /\ tasks' = Interrupted(tasks, BagToSet(tasks), st.list, FALSE)
    /\ last' = [Done("dispose", st.list) EXCEPT !.handlers = listeners,
                                                !.notified = st.notified]
    /\ UNCHANGED loaded

\* FragmentsManager loads a group: its fragments enter FragmentsManager.list
Load ==
    \E group \in AllModels :
        /\ loaded' = loaded \cup {group.keyFragments[k] : k \in DOMAIN group.keyFragments}
        /\ last' = [Done("load", list) EXCEPT !.model = group.uuid]
        /\ UNCHANGED <<list, tasks, events>>

\* FragmentsManager disposes a group: its fragments leave FragmentsManager.list
\* and the disposal notification is delivered
DisposeGroup ==
    \E group \in AllModels :
        LET fragmentIDs == {group.keyFragments[k] : k \in DOMAIN group.keyFragments}
            l2 == IF attached THEN onFragmentsDisposed(list, group.uuid, fragmentIDs)
                  ELSE list
        IN
        /\ loaded' = loaded \ fragmentIDs
        /\ list' = l2
        /\ tasks' = Interrupted(tasks, BagToSet(tasks), l2, attached)
        /\ last' = [Done("disposeGroup", l2) EXCEPT !.model = group.uuid,
                        !.cls = group.uuid, !.frags = fragmentIDs]
        /\ UNCHANGED events

FindIn(filters) ==
    \E filter \in filters :
        \E call \in {find(list, filter)} :
        /\ last' = [Done("find", list) EXCEPT !.filter = filter,
                        !.err = call.err, !.result = call.result,
                        !.models = call.models]
        /\ UNCHANGED <<list, tasks, events, loaded>>

Find == FindIn(Filters)

\* find() and find of one class, where fragments come and go
FindLoaded == FindIn({NoFilter, Filter("models" :> <<"mA">>)})

SetColor ==
    \E items \in ItemsOptions, color \in Colors, override \in BOOLEAN :
        /\ last' = [Done("setColor", list) EXCEPT !.items = items,
                        !.calls = setColor(items, color, override)]
        /\ UNCHANGED <<list, tasks, events, loaded>>

ResetColor ==
    \E items \in ItemsOptions :
        /\ last' = [Done("resetColor", list) EXCEPT !.items = items,
                        !.calls = resetColor(items)]
        /\ UNCHANGED <<list, tasks, events, loaded>>

\* byPredefinedType up to its first await (or to its end)
ByPredefinedTypeOf(groups) ==
    \E group \in groups :
        LET l1 == IF ~DataMapHas(list, "predefinedTypes")
                  THEN DataMapSet(list, "predefinedTypes", EmptyDataMap)
                  ELSE list
            ids == group.propertyIDs
            call == [Done("byPredefinedType", l1) EXCEPT !.model = group.uuid,
                         !.sys = "predefinedTypes"]
        IN
        /\ list' = l1
        /\ IF ids = <<>>
           THEN /\ tasks' = tasks
                /\ last' = [call EXCEPT !.finished = TRUE]
           ELSE /\ BagCardinality(tasks) < MaxTasks
                /\ tasks' = Suspend(NewTask("byPredefinedType", group.uuid,
                       "predefinedTypes", TRUE, NoIsolate,
                       [i \in 1..Len(ids) |-> [t |-> "entity", x |-> ids[i], y |-> NULL]]))
                /\ last' = [call EXCEPT !.lookup = TRUE]
        /\ UNCHANGED <<events, loaded>>

ByPredefinedType == ByPredefinedTypeOf(AllModels)

\* the pass that follows a property lookup of byPredefinedType
ByPredefinedTypeResume ==
    \E task \in BagToSet(tasks) :
        LET group == ModelOf(task.model)
            id == Head(task.todo).x
            entity == hasProperties(group, id)
            predefinedType == predefinedTypeOf(group, id)
            loop == byPredefinedTypeLoop(group)
            thrown == entity /\ loop.err
            \* a detached call writes into the DataMap it holds, not the index
            l2 == IF ~entity \/ task.detached THEN list
                  ELSE DataMapSet(list, "predefinedTypes",
                           byPredefinedTypeEntity(list["predefinedTypes"], group, id))
            since == IF ~entity THEN task.since
                     ELSE task.since \cup
                          {[cls |-> predefinedType, frag |-> f, id |-> id] :
                              f \in loop.frags}
            ends == thrown \/ Tail(task.todo) = <<>>
        IN
        /\ task.kind = "byPredefinedType"
        /\ list' = l2
        /\ tasks' = IF ends THEN Return(task)
                     ELSE Continue(task, [task EXCEPT !.todo = Tail(@), !.since = since])
        /\ last' = [Done("byPredefinedType.resume", l2) EXCEPT
                        !.model = task.model, !.sys = "predefinedTypes",
                        !.cls = IF entity THEN predefinedType ELSE "",
                        !.ids = IF entity THEN {id} ELSE {},
                        !.code = id,
                        !.err = IF thrown THEN "Fragment ID not found!" ELSE "",
                        !.lookup = ~ends, !.finished = ends,
                        !.hit = task.hit, !.since = since]
        /\ UNCHANGED <<events, loaded>>

\* byIfcRel up to its first await
ByIfcRelIn(groups, systemNames) ==
    \E group \in groups, ifcRel \in RelCodes, systemName \in systemNames :
        LET call == [Done("byIfcRel", list) EXCEPT !.model = group.uuid,
                         !.sys = systemName, !.code = ifcRel]
        IN
        /\ list' = list
        /\ IF ~byIfcRelRuns(ifcRel)
           THEN /\ tasks' = tasks
                /\ last' = [call EXCEPT !.finished = TRUE]
           ELSE /\ BagCardinality(tasks) < MaxTasks
                /\ tasks' = Suspend(NewTask("byIfcRel", group.uuid, systemName,
                       TRUE, NoIsolate,
                       [i \in 1..Cardinality(RelIndexes(group, ifcRel)) |->
                           [t |-> "rel",
                            x |-> IndexSeq(RelIndexes(group, ifcRel))[i],
                            y |-> NULL]]))
                /\ last' = [call EXCEPT !.lookup = (group.props # {})]
        /\ UNCHANGED <<events, loaded>>

ByIfcRelOf(groups) == ByIfcRelIn(groups, SystemNames)

ByIfcRel == ByIfcRelOf(Models)

\* one callback of the relation-map walk, or the return of byIfcRel
ByIfcRelResume ==
    \E task \in BagToSet(tasks) :
        LET group == ModelOf(task.model)
        IN
        /\ task.kind = "byIfcRel"
        /\ IF task.todo = <<>>
           THEN /\ list' = list
                /\ tasks' = Return(task)
                /\ last' = [Done("byIfcRel.return", list) EXCEPT
                                !.model = task.model, !.sys = task.sys,
                                !.finished = TRUE, !.hit = task.hit,
                                !.since = task.since]
           ELSE LET rel == group.rels[Head(task.todo).x]
                    l2 == byIfcRelCallback(list, group, task.sys, rel)
                    since == task.since \cup
                        Insertions(group, RelatingName(group, rel.relating), rel.related)
                IN  /\ list' = l2
                    /\ tasks' = Continue(task,
                           [task EXCEPT !.todo = Tail(@), !.since = since])
                    /\ last' = [Done("byIfcRel.callback", l2) EXCEPT
                                    !.model = task.model, !.sys = task.sys,
                                    !.cls = RelatingName(group, rel.relating),
                                    !.ids = rel.related, !.lookup = TRUE,
                                    !.hit = task.hit, !.since = since]
        /\ UNCHANGED <<events, loaded>>

\* bySpatialStructure up to its first await (or to its end)
BySpatialStructureOf(models, options, isolates) ==
    \E model \in models, useProps \in options, isolate \in isolates :
        LET useProperties == usePropertiesOf(useProps)
            call == [Done("bySpatialStructure", list) EXCEPT !.model = model.uuid,
                         !.sys = "spatialStructures", !.opt = useProps,
                         !.useProperties = useProperties, !.isolate = isolate]
        IN
        /\ IF ~hasModelRelations(model)
           THEN /\ list' = list
                /\ tasks' = tasks
                /\ last' = [call EXCEPT !.err = "model relations have to exist",
                                        !.finished = TRUE]
           ELSE LET items == spatialItems(model, isolate, modelRelations(model))
                IN
                IF useProperties /\ items # <<>>
                THEN /\ BagCardinality(tasks) < MaxTasks
                     /\ list' = list
                     /\ tasks' = Suspend(NewTask("bySpatialStructure", model.uuid,
                            "spatialStructures", TRUE, isolate, items))
                     /\ last' = [call EXCEPT !.lookup = TRUE]
                ELSE LET l2 == spatialAll(list, model, items, useProperties) IN
                     /\ list' = l2
                     /\ tasks' = tasks
                     /\ last' = [call EXCEPT !.changed = (l2 # list),
                                     !.ids = spatialAllIDs(model, items, useProperties),
                                     !.finished = TRUE,
                                     !.since = spatialAllInsertions(model, items, useProperties)]
        /\ UNCHANGED <<events, loaded>>

BySpatialStructure == BySpatialStructureOf(Models, UsePropertiesOptions, IsolateOptions)

\* the pass that follows a property lookup of bySpatialStructure
BySpatialStructureResume ==
    \E task \in BagToSet(tasks) :
        LET model == ModelOf(task.model)
            item == Head(task.todo)
            l2 == spatialItem(list, model, item, task.useProperties)
            since == task.since \cup
                         spatialItemInsertions(model, item, task.useProperties)
            ends == Tail(task.todo) = <<>>
        IN
        /\ task.kind = "bySpatialStructure"
        /\ list' = l2
        /\ tasks' = IF ends THEN Return(task)
                     ELSE Continue(task, [task EXCEPT !.todo = Tail(@), !.since = since])
        /\ last' = [Done("bySpatialStructure.resume", l2) EXCEPT
                        !.model = task.model, !.sys = "spatialStructures",
                        !.ids = spatialItemIDs(model, item, task.useProperties),
                        !.cls = spatialItemName(model, item, task.useProperties),
                        !.code = spatialItemOwner(item),
                        !.useProperties = task.useProperties,
                        !.isolate = task.isolate,
                        !.lookup = ~ends, !.finished = ends,
                        !.hit = task.hit, !.since = since]
        /\ UNCHANGED <<events, loaded>>

Init ==
    /\ list = EmptyDataMap
    /\ tasks = EmptyBag
    /\ last = NoCall
    /\ attached = TRUE
    /\ listeners = {}
    /\ loaded = {}

\* The index under the synchronous builders and the removals
Next ==
    \/ ByModel
    \/ ByEntity
    \/ Remove
    \/ FragmentsDisposed

Spec == Init /\ [][Next]_vars

\* The queries over the indexes the synchronous builders produce
NextFind ==
    \/ ByModel
    \/ ByEntity
    \/ Find

SpecFind == Init /\ [][NextFind]_vars

\* The index under the async builders, each suspended at their lookups
NextBuilders ==
    \/ ByIfcRel
    \/ ByIfcRelResume
    \/ BySpatialStructure
    \/ BySpatialStructureResume

SpecBuilders == Init /\ [][NextBuilders]_vars

\* bySpatialStructure on the model with nested containers, under every
\* option, each call suspended at its lookups
BySpatialStructureNested ==
    BySpatialStructureOf({ModelC}, UsePropertiesOptions, IsolateOptions)

NextSpatial ==
    \/ BySpatialStructureNested
    \/ BySpatialStructureResume

SpecSpatial == Init /\ [][NextSpatial]_vars

\* bySpatialStructure over the two indexed models, whose storeys have the
\* same name
BySpatialStructureIndexed ==
    BySpatialStructureOf({ModelA, ModelC}, UsePropertiesOptions, {NoIsolate})

NextStoreys ==
    \/ BySpatialStructureIndexed
    \/ BySpatialStructureResume

SpecStoreys == Init /\ [][NextStoreys]_vars

\* byPredefinedType next to the builders that insert through saveItem
\* the groups with a geometry key that has no fragment, of which model A
\* has relations to walk
TypeModels == Models
ByPredefinedTypeA == ByPredefinedTypeOf(TypeModels)
ByEntityA == ByEntityOf(TypeModels)
ByIfcRelA == ByIfcRelOf({ModelA})
BySpatialStructureA == BySpatialStructureOf({ModelA}, {"true"}, {NoIsolate})

NextTypes ==
    \/ ByPredefinedTypeA
    \/ ByPredefinedTypeResume
    \/ ByEntityA
    \/ ByIfcRelA
    \/ ByIfcRelResume
    \/ BySpatialStructureA
    \/ BySpatialStructureResume

NextPredefined ==
    \/ ByPredefinedType
    \/ ByPredefinedTypeResume

SpecPredefined == Init /\ [][NextPredefined]_vars

SpecTypes == Init /\ [][NextTypes]_vars

\* Disposal notifications delivered between the steps of the async builders
\* at work on one model
ByPredefinedTypeC == ByPredefinedTypeOf({ModelC})
ByIfcRelC == ByIfcRelOf({ModelC})
\* (a call with useProperties = false has no suspension point)
BySpatialStructureC == BySpatialStructureOf({ModelC}, {"undefined", "true"}, {NoIsolate})
FragmentsDisposedC == FragmentsDisposedOf(GroupIDsC, FragmentSetsC)

NextRace ==
    \/ ByPredefinedTypeC
    \/ ByPredefinedTypeResume
    \/ ByIfcRelC
    \/ ByIfcRelResume
    \/ BySpatialStructureC
    \/ BySpatialStructureResume
    \/ FragmentsDisposedC

SpecRace == Init /\ [][NextRace]_vars

\* The life of the Classifier up to and after dispose()
NextDispose ==
    \/ ByModel
    \/ FragmentsDisposed
    \/ AddListener
    \/ Dispose

SpecDispose == Init /\ [][NextDispose]_vars

\* The Classifier next to a FragmentsManager whose groups come and go
NextFragments ==
    \/ ByModel
    \/ Remove
    \/ Load
    \/ DisposeGroup
    \/ FindLoaded
    \/ SetColor
    \/ ResetColor

SpecFragments == Init /\ [][NextFragments]_vars

(***************************************************************************)
(* Properties                                                              *)
(***************************************************************************)
\* the (fragment, ExpressID) pairs of class className of system systemName
Holds(l, systemName, className, guid, id) ==
    /\ systemName \in DOMAIN l
    /\ className \in DOMAIN l[systemName]
    /\ guid \in DOMAIN l[systemName][className].map
    /\ id \in l[systemName][className].map[guid]

\* AND across the filter's systems, OR within the classes listed for one
Satisfies(l, keys, guid, id) ==
    \A name \in DOMAIN keys :
        \E i \in 1..Len(keys[name]) : Holds(l, name, keys[name][i], guid, id)

AndOrResult(l, keys) ==
    LET hit(guid) == {id \in idsUnder(l, guid) : Satisfies(l, keys, guid, id)}
    IN  [guid \in {g \in guidsIn(l) : hit(g) # {}} |-> hit(guid)]

\* C1: for a filter whose system names all exist in the index, find returns
\* exactly the pairs that, for every filter key, are held by at least one of
\* the classes listed for that key - also when a pair is in several of the
\* listed classes or a class name is listed twice.
C1_FindAndOr ==
    (/\ last.op = "find"
     /\ last.filter.given
     /\ DOMAIN last.filter.keys # {}
     /\ \A name \in DOMAIN last.filter.keys : name \in DOMAIN list)
    => last.result = AndOrResult(list, last.filter.keys)

\* the pairs (keyFragments[key], expressID) of a model's data
ModelPairs(group) ==
    LET resolved == UNION {FragmentsOf(group, e) : e \in DOMAIN group.data}
    IN  [f \in resolved |-> {e \in DOMAIN group.data : f \in FragmentsOf(group, e)}]

\* C2: from an empty index, byModel(modelID, group) followed by
\* find({models: [modelID]}) returns exactly the pairs of the group's data
\* whose geometry key resolves to a fragment.
C2_ByModelRoundTrip ==
    [][(/\ last.op = "byModel"
        /\ last.wasEmpty
        /\ last'.op = "find"
        /\ last'.filter = Filter("models" :> <<last.cls>>))
       => last'.result = ModelPairs(ModelOf(last.model))]_vars

C2_Witness ==
    /\ last.op = "find"
    /\ last.filter = Filter("models" :> <<"mB">>)
    /\ DOMAIN list = {"models"}
    /\ DOMAIN list["models"] = {"mB"}
    /\ last.result = ModelPairs(ModelA)
    /\ DOMAIN last.result = {"f1", "f2"}

\* C3: a disposal notification removes the class named groupID from every
\* system that has it, and a second identical notification leaves the index
\* as the first one left it.
C3_DisposalIdempotent ==
    [][(last'.op = "onFragmentsDisposed")
       => /\ \A systemName \in DOMAIN list' :
                last'.cls \notin DOMAIN list'[systemName]
          /\ (/\ last.op = "onFragmentsDisposed"
               /\ last.cls = last'.cls
               /\ last.frags = last'.frags) => list' = list]_vars

\* C4: where groupID is not a class name of a system, a notification naming
\* fragment ids leaves in that system no class whose map has become empty,
\* and does not leave the system without classes.
C4_DisposalPrunes ==
    [][(last'.op = "onFragmentsDisposed" /\ last'.frags # {})
       => \A systemName \in DOMAIN list :
            (last'.cls \notin DOMAIN list[systemName]
             /\ systemName \in DOMAIN list')
            => /\ DOMAIN list'[systemName] # {}
               /\ \A groupName \in DOMAIN list'[systemName] :
                     \/ list'[systemName][groupName].map # EmptyMap
                     \/ list[systemName][groupName].map = EmptyMap]_vars

\* C5: remove(guid) deletes the entry of fragment guid from every class of
\* every system and changes nothing else: systems, classes (also those left
\* with an empty map), names, parent ids and the other fragments' entries.
C5_RemoveFrame ==
    [][(last'.op = "remove")
       => /\ DOMAIN list' = DOMAIN list
          /\ \A systemName \in DOMAIN list :
                /\ DOMAIN list'[systemName] = DOMAIN list[systemName]
                /\ \A groupName \in DOMAIN list[systemName] :
                      LET old == list[systemName][groupName]
                          new == list'[systemName][groupName]
                      IN  /\ new.name = old.name
                          /\ new.id = old.id
                          /\ DOMAIN new.map = (DOMAIN old.map) \ {last'.guid}
                          /\ \A f \in DOMAIN new.map : new.map[f] = old.map[f]]_vars

C5_Witness ==
    /\ last.op = "remove"
    /\ last.changed
    /\ \E systemName \in DOMAIN list :
          \E groupName \in DOMAIN list[systemName] :
              list[systemName][groupName].map = EmptyMap
    /\ \E systemName \in DOMAIN list :
          \E groupName \in DOMAIN list[systemName] :
              list[systemName][groupName].map # EmptyMap

\* C6: after a disposal notification no class of any system has one of the
\* notification's fragment ids as a key of its map, in either branch.
C6_DisposalPurgesAll ==
    (last.op = "onFragmentsDisposed")
    => \A systemName \in DOMAIN list :
         \A groupName \in DOMAIN list[systemName] :
             (DOMAIN list[systemName][groupName].map) \cap last.frags = {}

\* the steps in which saveItem is called, with the ids it is called for
SaveItemSteps == {"byIfcRel.callback", "bySpatialStructure", "bySpatialStructure.resume"}

\* C7: saveItem for entities without a resolvable geometry key leaves the
\* index as it was (no system and no class is created).
C7_SaveItemNoKeyNoOp ==
    (/\ last.op \in SaveItemSteps
     /\ last.ids # {}
     /\ \A e \in last.ids : FragmentsOf(ModelOf(last.model), e) = {})
    => ~last.changed

\* C8: byIfcRel with a relation code isRel does not recognise leaves the
\* index unchanged and performs no property lookup.
C8_ByIfcRelUnknownCode ==
    [][(last'.op = "byIfcRel" /\ ~isRel(last'.code))
       => /\ list' = list
          /\ tasks' = tasks
          /\ ~last'.lookup]_vars

C8_Witness ==
    /\ last.op = "byIfcRel"
    /\ ~isRel(last.code)
    /\ "rels" \notin DOMAIN list
    /\ list # EmptyDataMap
    /\ tasks # EmptyBag

\* C9: find with a filter naming a system absent from the index raises no
\* error and returns no pair, whatever the other keys list.
C9_FindUnknownSystem ==
    (/\ last.op = "find"
     /\ last.filter.given
     /\ \E name \in DOMAIN last.filter.keys : name \notin DOMAIN list)
    => (last.err = "" /\ last.result = EmptyMap)

\* C10: bySpatialStructure for a model without an entry in relationMaps
\* fails with an error, leaves the index as it was and issues no lookup.
C10_SpatialNeedsRelations ==
    [][(last'.op = "bySpatialStructure" /\ last'.model \notin DOMAIN relationMaps)
       => /\ last'.err # ""
          /\ list' = list
          /\ tasks' = tasks
          /\ ~last'.lookup]_vars

C10_Witness ==
    /\ last.op = "bySpatialStructure"
    /\ last.model = "mB"
    /\ last.err # ""
    /\ "spatialStructures" \notin DOMAIN list
    /\ list # EmptyDataMap

\* the (class, fragment, id) pairs of system systemName
Pairs(l, systemName) ==
    IF systemName \notin DOMAIN l THEN {}
    ELSE UNION {UNION {{[cls |-> c, frag |-> f, id |-> e] : e \in l[systemName][c].map[f]} :
                          f \in DOMAIN l[systemName][c].map} :
                   c \in DOMAIN l[systemName]}

\* the class names of system systemName
Classes(l, systemName) ==
    IF systemName \notin DOMAIN l THEN {} ELSE DOMAIN l[systemName]

SpatialSteps == {"bySpatialStructure", "bySpatialStructure.resume"}

\* the class a container names: its Name with useProperties, else its id
ContainerClass(model, useProperties, container) ==
    IF useProperties THEN NameValue(model, container) ELSE toString(container)

\* the container's pass runs: isolate lets it through and, with
\* useProperties, its properties are found
ContainerRuns(model, useProperties, isolate, container) ==
    /\ isolate.set =>
          /\ container \in DOMAIN model.data
          /\ model.data[container].cat \in isolate.cats
    /\ useProperties => container \in model.props

\* C11: when a bySpatialStructure call has completed, for every container C
\* whose pass ran, every element A it contains and every sub-part S of A
\* (IsDecomposedBy), S is in the class of C under each fragment S's geometry
\* keys resolve to.
C11_SpatialNesting ==
    (/\ last.op \in SpatialSteps
     /\ last.finished
     /\ last.err = "")
    => LET model == ModelOf(last.model)
           rel(e, name) == SeqToSet(getEntityRelations(model, e, name))
       IN  \A C \in SeqToSet(modelRelations(model)) :
             ContainerRuns(model, last.useProperties, last.isolate, C)
             => \A A \in rel(C, "ContainsElements") :
                  \A S \in rel(A, "IsDecomposedBy") :
                    \A f \in FragmentsOf(model, S) :
                       Holds(list, "spatialStructures",
                             ContainerClass(model, last.useProperties, C), f, S)

C11_Witness ==
    /\ last.op = "bySpatialStructure.resume"
    /\ last.finished
    /\ last.model = "mC"
    /\ Holds(list, "spatialStructures", "L1", "f4", 21)
    /\ Holds(list, "spatialStructures", "L1", "f5", 22)
    /\ ~Holds(list, "spatialStructures", "L1", "f4", 22)

\* every class record is stored under its own name
WellFormed(l) ==
    \A systemName \in DOMAIN l :
        \A groupName \in DOMAIN l[systemName] :
            l[systemName][groupName].name = groupName

BuilderSteps ==
    {"byPredefinedType.resume", "byIfcRel.callback", "byIfcRel.return",
     "bySpatialStructure.resume"}

\* C12: when an async builder that met a disposal notification while it was
\* suspended finishes, every insertion it performed after the (last)
\* notification is in the index, and every class record of the index is
\* stored under its own name.
C12_DisposalRace ==
    [][(/\ last'.op \in BuilderSteps
        /\ last'.finished
        /\ last'.hit)
       => /\ \A p \in last'.since : Holds(list', last'.sys, p.cls, p.frag, p.id)
          /\ WellFormed(list')]_vars

\* C13: dispose() empties the index, unregisters the disposal handler,
\* calls every onDisposed listener once, with the handler already
\* unregistered, and leaves no listener; a disposal notification delivered
\* after it leaves the index as it is.
C13_Dispose ==
    [][/\ (last'.op = "dispose")
          => /\ list' = EmptyDataMap
             /\ ~attached'
             /\ listeners' = {}
             /\ DOMAIN last'.notified = listeners
             /\ \A h \in listeners :
                   /\ last'.notified[h].times = 1
                   /\ ~last'.notified[h].attached
       /\ (last'.op = "onFragmentsDisposed" /\ ~attached) => list' = list]_vars

C13_Witness ==
    /\ last.op = "dispose"
    /\ last.handlers = Handlers
    /\ ~last.wasEmpty
    /\ list = EmptyDataMap
    /\ ~attached

\* the category code of an entity is a member of the isolate set
InIsolate(model, isolate, expressID) ==
    /\ expressID \in DOMAIN model.data
    /\ model.data[expressID].cat \in isolate.cats

\* C14 (as claimed): every ExpressID a bySpatialStructure call with isolate
\* adds to a class of "spatialStructures" belongs to an entity whose category
\* code is in isolate.
C14_IsolateOnlyMembers ==
    [][(last'.op \in SpatialSteps /\ last'.isolate.set)
       => \A p \in Pairs(list', "spatialStructures") \ Pairs(list, "spatialStructures") :
             InIsolate(ModelOf(last'.model), last'.isolate, p.id)]_vars

\* C14 (amended): isolate selects the entities of the relation map whose
\* passes run.  Every ExpressID a call with isolate adds is an entity of an
\* isolate category that decomposes another, or is contained in (or a direct
\* sub-part of an element contained in) a container of an isolate category,
\* whatever its own category.  With isolate unset, a call that has completed
\* has filed every entity that decomposes another under the class of that
\* parent and every contained element under the class of its container, where
\* the class owner's pass ran and the entity has a resolvable geometry key.
C14_IsolateSelectsOwners ==
    [][(last'.op \in SpatialSteps /\ last'.err = "")
       => LET model == ModelOf(last'.model)
              isolate == last'.isolate
              useProperties == last'.useProperties
              rel(e, name) == SeqToSet(getEntityRelations(model, e, name))
              order == SeqToSet(modelRelations(model))
              sys == "spatialStructures"
          IN  /\ isolate.set
                 => \A p \in Pairs(list', sys) \ Pairs(list, sys) :
                      \E x \in order :
                        /\ InIsolate(model, isolate, x)
                        /\ \/ p.id = x /\ rel(x, "Decomposes") # {}
                           \/ p.id \in rel(x, "ContainsElements")
                           \/ \E A \in rel(x, "ContainsElements") :
                                 p.id \in rel(A, "IsDecomposedBy")
              /\ (~isolate.set /\ last'.finished)
                 => \A x \in order :
                      /\ \A parent \in rel(x, "Decomposes") :
                           ContainerRuns(model, useProperties, isolate, parent)
                           => \A f \in FragmentsOf(model, x) :
                                Holds(list', sys,
                                      ContainerClass(model, useProperties, parent), f, x)
                      /\ ContainerRuns(model, useProperties, isolate, x)
                         => \A A \in rel(x, "ContainsElements") :
                              \A f \in FragmentsOf(model, A) :
                                Holds(list', sys,
                                      ContainerClass(model, useProperties, x), f, A)]_vars

C14_Witness ==
    /\ last.op = "bySpatialStructure"
    /\ last.model = "mC"
    /\ last.isolate = [set |-> TRUE, cats |-> {IFCSPACE}]
    /\ Holds(list, "spatialStructures", "23", "f4", 24)
    /\ Holds(list, "spatialStructures", "26", "f5", 23)
    /\ ~InIsolate(ModelC, last.isolate, 24)

\* C15: a bySpatialStructure call with useProperties omitted does what the
\* call with useProperties = true does: it changes nothing before its first
\* lookup and suspends as the same call (or returns at once when there is
\* nothing to classify), and every class its passes create is named by the
\* Name of the entity recorded as the class's parent.  With useProperties =
\* false the call returns without a lookup or a suspension and every class it
\* creates is named by the decimal string of the parent's ExpressID.
C15_UseProperties ==
    [][LET model == ModelOf(last'.model)
           sys == "spatialStructures"
           created == Classes(list', sys) \ Classes(list, sys)
           items == spatialItems(model, last'.isolate, modelRelations(model))
       IN  /\ (last'.op = "bySpatialStructure" /\ last'.err = "" /\ last'.opt = "false")
              => /\ tasks' = tasks
                 /\ ~last'.lookup
                 /\ last'.finished
                 /\ \A c \in created : c = toString(list'[sys][c].id)
           /\ (last'.op = "bySpatialStructure" /\ last'.err = ""
                 /\ last'.opt \in {"undefined", "true"})
              => /\ list' = list
                 /\ IF items = <<>> THEN tasks' = tasks /\ ~last'.lookup
                    ELSE /\ last'.lookup
                         /\ tasks' = tasks (+) SetToBag({
                               NewTask("bySpatialStructure", last'.model, sys, TRUE,
                                       last'.isolate, items)})
           /\ (last'.op = "bySpatialStructure.resume")
              => \A c \in created : c = NameValue(model, list'[sys][c].id)]_vars

C15_Witness ==
    /\ last.op = "bySpatialStructure"
    /\ last.opt = "false"
    /\ last.model = "mC"
    /\ last.changed
    /\ {"L1", "W21", "26", "21", "23"} \subseteq Classes(list, "spatialStructures")

\* the passes of a step of bySpatialStructure (all of them when the call ran
\* without a suspension)
StepItems ==
    LET model == ModelOf(last'.model)
    IN  IF last'.op = "bySpatialStructure" /\ last'.finished /\ last'.err = ""
        THEN SeqToSet(spatialItems(model, last'.isolate, modelRelations(model)))
        ELSE IF last'.op = "bySpatialStructure.resume"
        THEN {item \in SeqToSet(spatialItems(model, last'.isolate, modelRelations(model))) :
                 /\ spatialItemOwner(item) = last'.code
                 /\ spatialItemIDs(model, item, last'.useProperties) = last'.ids}
        ELSE {}

\* C16: after a step of bySpatialStructure, the class every pass of the step
\* filed an entity in records as its parent id the container (or decomposed
\* parent) of that pass, also when another container gave the same class
\* name; the classes of every other system have a null parent id.
C16_ParentID ==
    [][(last'.op \in SpatialSteps)
       => LET model == ModelOf(last'.model)
              sys == "spatialStructures"
          IN  /\ \A item \in StepItems :
                    \A p \in spatialItemInsertions(model, item, last'.useProperties) :
                        /\ Holds(list', sys, p.cls, p.frag, p.id)
                        /\ list'[sys][p.cls].id = spatialItemOwner(item)
              /\ \A systemName \in (DOMAIN list') \ {sys} :
                    \A c \in DOMAIN list'[systemName] :
                        list'[systemName][c].id = NULL]_vars

\* the group has a geometry key without an entry in keyFragments
HasMissingKey(group) ==
    \E e \in DOMAIN group.data :
        \E k \in group.data[e].keys : k \notin DOMAIN group.keyFragments

UpperCased == "STANDARD" :> "STANDARD" @@ "floor" :> "FLOOR"

\* the class the claim names for an entity
ClaimedType(group, id, absent) ==
    IF id \in DOMAIN group.predefined THEN UpperCased[group.predefined[id]]
    ELSE absent

C19_FindAll ==
    [][(last'.op = "find" /\ ~last'.filter.given)
       => /\ DOMAIN last'.result = loaded
          /\ \A id \in loaded : last'.result[id] = fragmentsList[id]
          /\ last'.err = ""
          /\ list' = list
          /\ loaded' = loaded]_vars

C19_Witness ==
    /\ last.op = "find"
    /\ ~last.filter.given
    /\ DOMAIN last.result = {"f3"}
    /\ "f1" \in guidsIn(list)
    /\ "f3" \notin guidsIn(list)
    /\ \E c \in Classes(list, "models") : list["models"][c].map = EmptyMap

ByEntityC == ByEntityOf({ModelC})

NextIndex ==
    \/ ByModel
    \/ ByEntityC
    \/ ByPredefinedTypeC
    \/ ByPredefinedTypeResume
    \/ ByIfcRelC
    \/ ByIfcRelResume
    \/ BySpatialStructureC
    \/ BySpatialStructureResume

SpecIndex == Init /\ [][NextIndex]_vars

\* the pair (guid, id) is one of the model's own: a geometry key of entity
\* id resolves to fragment guid
OwnPair(guid, id) ==
    \E group \in AllModels : guid \in FragmentsOf(group, id)

\* C21: every ExpressID stored under a fragment in a class of the index has
\* a geometry key in its model's data that keyFragments resolves to that
\* fragment.
C21_OwnFragments ==
    \A systemName \in DOMAIN list :
        \A p \in Pairs(list, systemName) : OwnPair(p.frag, p.id)


\* Async builders interleaved at their lookups, with nothing else at work on
\* the index: byPredefinedType on a model whose call ends with an error (A)
\* and on one whose call completes (C), the walks on model C, byIfcRel with
\* the system name bySpatialStructure uses, so that calls of the two kinds
\* meet in one class
ByPredefinedTypeInterleaved == ByPredefinedTypeOf({ModelA, ModelC})
ByIfcRelInterleaved == ByIfcRelIn({ModelC}, {"spatialStructures"})
BySpatialStructureInterleaved ==
    BySpatialStructureOf({ModelC}, {"true"}, {NoIsolate})

NextInterleaved ==
    \/ ByPredefinedTypeInterleaved
    \/ ByPredefinedTypeResume
    \/ ByIfcRelInterleaved
    \/ ByIfcRelResume
    \/ BySpatialStructureInterleaved
    \/ BySpatialStructureResume

SpecInterleaved == Init /\ [][NextInterleaved]_vars

\* the next pass of a suspended call run on index l: the index it leaves
\* and whether the call ends there
AsyncStep(l, task) ==
    LET group == ModelOf(task.model) IN
    CASE task.kind = "byPredefinedType" ->
           LET id == Head(task.todo).x
               entity == hasProperties(group, id)
           IN  [list |-> IF ~entity \/ task.detached THEN l
                         ELSE DataMapSet(l, "predefinedTypes",
                                  byPredefinedTypeEntity(l["predefinedTypes"], group, id)),
                ends |-> (entity /\ byPredefinedTypeLoop(group).err)
                         \/ Tail(task.todo) = <<>>]
      [] task.kind = "byIfcRel" ->
           IF task.todo = <<>> THEN [list |-> l, ends |-> TRUE]
           ELSE [list |-> byIfcRelCallback(l, group, task.sys,
                              group.rels[Head(task.todo).x]),
                 ends |-> FALSE]
      [] task.kind = "bySpatialStructure" ->
           [list |-> spatialItem(l, group, Head(task.todo), task.useProperties),
            ends |-> Tail(task.todo) = <<>>]

\* a suspended call run to its end on index l with no other call in between
RECURSIVE Finish(_, _)
Finish(l, task) ==
    LET step == AsyncStep(l, task)
    IN  IF step.ends THEN step.list
        ELSE Finish(step.list, [task EXCEPT !.todo = Tail(@)])

\* the suspended calls of sequence q run to their ends one after the other
RECURSIVE FinishAll(_, _)
FinishAll(l, q) ==
    IF q = <<>> THEN l ELSE FinishAll(Finish(l, Head(q)), Tail(q))

\* what a call does before its first lookup, on index l
Prefix(l, task) ==
    IF task.kind = "byPredefinedType" /\ ~DataMapHas(l, "predefinedTypes")
    THEN DataMapSet(l, "predefinedTypes", EmptyDataMap)
    ELSE l

\* the orders in which the calls of bag B can be run one after the other
TaskOrders(B) ==
    {q \in [1..BagCardinality(B) -> BagToSet(B)] :
        \A task \in BagToSet(B) :
            Cardinality({i \in DOMAIN q : q[i] = task}) = CopiesIn(task, B)}

\* the fragment-to-ExpressID map of every (system, class) of index l
Maps(l) == [systemName \in DOMAIN l |->
               [className \in DOMAIN l[systemName] |-> l[systemName][className].map]]

\* the maps the index ends with when the suspended calls of B are run one
\* after the other from index l, for each order
Outcomes(l, B) == {Maps(end) : end \in {FinishAll(l, q) : q \in TaskOrders(B)}}

\* the calls suspended by the step
Started == {task \in BagToSet(tasks') : CopiesIn(task, tasks') > CopiesIn(task, tasks)
                                         /\ last'.op \notin BuilderSteps}

\* C22: async builder calls interleaved at their lookups, with no disposal
\* in between, end with the fragment-to-ExpressID maps of the calls run one
\* after the other, in any order: whichever suspended call takes the next
\* pass, the maps the calls in flight end with stay the same single value,
\* and a call started while others are suspended ends with the maps of its
\* being run after they have finished and of their being finished after it.
C22_Interleaving ==
    [][\A after \in {Outcomes(list', tasks')} :
         /\ Cardinality(after) = 1
         /\ last'.op \in BuilderSteps => after = Outcomes(list, tasks)
         /\ \A call \in Started :
              LET others == TaskOrders(tasks) IN
              /\ after = {Maps(end) : end \in
                            {Finish(Prefix(FinishAll(list, q), call), call) :
                                q \in others}}
              /\ after = {Maps(end) : end \in
                            {FinishAll(Finish(Prefix(list, call), call), q) :
                                q \in others}}]_vars


C22_Witness ==
    \E walk \in BagToSet(tasks), pass \in BagToSet(tasks) :
        /\ walk.kind = "byIfcRel"
        /\ pass.kind = "bySpatialStructure"
        /\ walk.sys = pass.sys
        /\ \E p \in walk.since, q \in pass.since :
              /\ p.cls = q.cls
              /\ p # q
              /\ Holds(list, walk.sys, p.cls, p.frag, p.id)
              /\ Holds(list, pass.sys, q.cls, q.frag, q.id)


\* C23: find never raises "Malformed fragments map!": for every filter,
\* every entry of its match-count map has a count of at least 1; and find,
\* with or without a filter, leaves the index as it is.
C23_FindNeverMalformed ==
    [][last'.op = "find"
       => /\ list' = list
          /\ last'.err # "Malformed fragments map!"
          /\ \A guid \in DOMAIN last'.models :
                \A id \in DOMAIN last'.models[guid] : last'.models[guid][id] >= 1]_vars

C23_Witness ==
    /\ last.op = "find"
    /\ last.filter.given
    /\ last.err = ""
    /\ last.result # EmptyMap
    /\ \E guid \in DOMAIN last.models :
          \E id \in DOMAIN last.models[guid] : last.models[guid][id] = 2

====
